---- MODULE Spec2Model ----
(***************************************************************************)
(* Model of weather_bot.py: the location-keyed weather cache with its      *)
(* 600 s expiry (get_weather), the resolution of the raw location text     *)
(* into a place-name or latitude/longitude query, the forecast message     *)
(* rule of generate_weather_image and of the caption, and weather_handler  *)
(* running on the single thread of the event loop.                         *)
(*                                                                         *)
(* Text is a sequence of one-character strings, so that lower(), strip(),  *)
(* split(',') and float() are computed character by character.             *)
(***************************************************************************)
EXTENDS Integers, Sequences, FiniteSets, TLC

VARIABLES clock, weather_cache, pc, location, now, response_current,
          response_forecast, current_data, forecast_data, requested, image,
          caption, sent, arg, res

vars == <<clock, weather_cache, pc, location, now, response_current,
          response_forecast, current_data, forecast_data, requested, image,
          caption, sent, arg, res>>

\* the local variables of weather_handler and of its call of get_weather
locals == <<location, now, response_current, response_forecast, current_data,
            forecast_data, image, caption>>

\* the variables of the bot (arg and res hold the argument and the result of
\* a function checked on its own)
bot == <<clock, weather_cache, pc, locals, requested, sent>>

pure == <<arg, res>>

-----------------------------------------------------------------------------
(* Bounds *)

\* number of text messages the bot receives
MaxReqs == 2

\* time.time() is followed up to this many seconds
MaxClock == 900

\* the amounts by which time is seen to advance between two steps
TickSteps == {300}

\* longest location text given to get_weather's choice of query on its own
MaxLen == 5

\* longest forecast list given to the forecast message on its own
MaxPoints == 2

-----------------------------------------------------------------------------
(* Python values *)

\* Python's None
NoneV == [none |-> TRUE]

CACHE_TTL == 600

-----------------------------------------------------------------------------
(* Text *)

IsSpace(c) == c = " "

IsDigit(c) == c \in {"0", "1"}

\* str.lower(), one character
LowerChar(c) ==
    CASE c = "B" -> "b"
      [] c = "X" -> "x"
      [] c = "R" -> "r"
      [] OTHER -> c

\* str.upper(), one character
UpperChar(c) ==
    CASE c = "b" -> "B"
      [] c = "x" -> "X"
      [] c = "r" -> "R"
      [] OTHER -> c

\* str.lower()
Lower(s) == [i \in 1..Len(s) |-> LowerChar(s[i])]

\* str.capitalize(): first character upper-cased, the rest lower-cased
Capitalize(s) ==
    [i \in 1..Len(s) |-> IF i = 1 THEN UpperChar(s[i]) ELSE LowerChar(s[i])]

RECURSIVE LStrip(_)
LStrip(s) ==
    IF s # <<>> /\ IsSpace(Head(s)) THEN LStrip(Tail(s)) ELSE s

RECURSIVE RStrip(_)
RStrip(s) ==
    IF s # <<>> /\ IsSpace(s[Len(s)])
    THEN RStrip(SubSeq(s, 1, Len(s) - 1))
    ELSE s

\* str.strip()
Strip(s) == RStrip(LStrip(s))

\* ',' in s
HasComma(s) == \E i \in 1..Len(s) : s[i] = ","

\* index of the first comma of s, 0 when there is none
RECURSIVE FirstComma(_, _)
FirstComma(s, i) ==
    IF i > Len(s) THEN 0
    ELSE IF s[i] = "," THEN i
    ELSE FirstComma(s, i + 1)

\* str.split(','): every comma separates two parts
RECURSIVE Split(_)
Split(s) ==
    LET i == FirstComma(s, 1)
    IN  IF i = 0 THEN <<s>>
        ELSE <<SubSeq(s, 1, i - 1)>> \o Split(SubSeq(s, i + 1, Len(s)))

\* the number written by a sequence of digits
RECURSIVE DigitsValue(_)
DigitsValue(s) ==
    IF s = <<>> THEN 0
    ELSE 10 * DigitsValue(SubSeq(s, 1, Len(s) - 1))
         + (IF s[Len(s)] = "1" THEN 1 ELSE 0)

RECURSIVE Pow10(_)
Pow10(n) == IF n = 0 THEN 1 ELSE 10 * Pow10(n - 1)

RECURSIVE GCD(_, _)
GCD(a, b) == IF b = 0 THEN a ELSE GCD(b, a % b)

Dots(s) == {i \in 1..Len(s) : s[i] = "."}

\* float(s) succeeds: over the characters of the model (digits, '.', ',',
\* ' ', letters that are no part of a number) a float is digits with at
\* most one point and at least one digit
IsFloat(s) ==
    /\ \A i \in 1..Len(s) : IsDigit(s[i]) \/ s[i] = "."
    /\ Cardinality(Dots(s)) <= 1
    /\ \E i \in 1..Len(s) : IsDigit(s[i])

\* float(s) as the fraction <<numerator, denominator>>
FloatValue(s) ==
    LET d == Dots(s)
        p == IF d = {} THEN Len(s) + 1 ELSE CHOOSE i \in d : TRUE
        digits == SubSeq(s, 1, p - 1) \o SubSeq(s, p + 1, Len(s))
        num == DigitsValue(digits)
        den == Pow10(Len(s) - p + (IF d = {} THEN 1 ELSE 0))
        g == GCD(num, den)
    IN  <<num \div g, den \div g>>

\* the decimal digits of a natural number
RECURSIVE Digits(_)
Digits(n) ==
    IF n < 10
    THEN <<<<"0", "1", "2", "3", "4", "5", "6", "7", "8", "9">>[n + 1]>>
    ELSE Digits(n \div 10) \o Digits(n % 10)

\* the number cut after the point
FormatTruncated(h) ==
    (IF h < 0 THEN <<"-">> ELSE <<>>)
    \o Digits((IF h < 0 THEN -h ELSE h) \div 100)

\* f"{x:.1f}" for the number x = h / 100 (h not half-way between two
\* tenths): the sign, the digits before the point, the point and the
\* nearest tenth
Format1(h) ==
    LET a == IF h < 0 THEN -h ELSE h
        t == (a + 5) \div 10
    IN  (IF h < 0 THEN <<"-">> ELSE <<>>)
        \o Digits(t \div 10) \o <<".">> \o Digits(t % 10)

-----------------------------------------------------------------------------
(* get_weather: the query sent to the provider *)

\* the request parameters that identify the location: lat/lon when the text
\* has a comma and the first two parts of split(',') are floats, q otherwise
Query(loc) ==
    IF HasComma(loc)
    THEN LET parts == Split(loc)
             p0 == Strip(parts[1])
             p1 == Strip(parts[2])
         IN  IF IsFloat(p0) /\ IsFloat(p1)
             THEN [by |-> "latlon", lat |-> FloatValue(p0), lon |-> FloatValue(p1)]
             ELSE [by |-> "q", q |-> loc]
    ELSE [by |-> "q", q |-> loc]

url_current(loc) == [endpoint |-> "weather", query |-> Query(loc)]

url_forecast(loc) == [endpoint |-> "forecast", query |-> Query(loc)]

\* the key taken as typed
CacheKeyRaw(loc) == loc

\* key = location.lower()
CacheKey(loc) == Lower(loc)

\* the comparison turned around
FreshInverted(entry, t) == t - entry.timestamp > CACHE_TTL

\* an entry of exactly CACHE_TTL seconds taken as fresh
FreshInclusive(entry, t) == t - entry.timestamp <= CACHE_TTL

\* the entry of the cache is fresh at time t
Fresh(entry, t) == t - entry.timestamp < CACHE_TTL

\* a call for an entry without forecast fetches again
HitNeedsForecast(cache, key, t) ==
    /\ key \in DOMAIN cache
    /\ Fresh(cache[key], t)
    /\ cache[key].forecast # NoneV

\* key in weather_cache and the entry is fresh: the call is served from it
Hit(cache, key, t) == key \in DOMAIN cache /\ Fresh(cache[key], t)

\* the status alone decides
CurrentOkStatusOnly(resp) == resp.status_code = 200

\* the current-conditions response is accepted
CurrentOk(resp) == resp.status_code = 200 /\ resp.json.cod = 200

\* forecast_data: the body of a 200 response, None otherwise
ForecastData(resp) == IF resp.status_code = 200 THEN resp.json ELSE NoneV

\* a hit that restarts the 600 seconds of its entry
CacheTouched(cache, key, t) ==
    [cache EXCEPT ![key] = [@ EXCEPT !.timestamp = t]]

\* the cache after a call served from it: a hit only reads
CacheAfterHit(cache, key, t) == cache

\* the stale entries of the other keys dropped on a store
StoreEvicting(cache, key, t, cur, fc) ==
    [k \in {j \in DOMAIN cache : t - cache[j].timestamp < CACHE_TTL} \cup {key}
        |-> IF k = key
            THEN [timestamp |-> t, current |-> cur, forecast |-> fc]
            ELSE cache[k]]

\* an entry that exists is kept
StoreIfAbsent(cache, key, t, cur, fc) ==
    [k \in DOMAIN cache \cup {key} |->
        IF k = key /\ key \notin DOMAIN cache
        THEN [timestamp |-> t, current |-> cur, forecast |-> fc]
        ELSE cache[k]]

\* weather_cache[key] = (now, current_data, forecast_data)
Store(cache, key, t, cur, fc) ==
    [k \in DOMAIN cache \cup {key} |->
        IF k = key
        THEN [timestamp |-> t, current |-> cur, forecast |-> fc]
        ELSE cache[k]]

-----------------------------------------------------------------------------
(* The forecast message *)

NoChangeText == <<"Pogoda ne izmenitsya.">>

UmbrellaText == <<"Prognoz: dozhd'. Ne zabud'te vzyat' zont!">>

ForecastPrefix == <<"Prognoz: ">>

\* truth value of a dict or None
Truthy(d) == d # NoneV /\ DOMAIN d # {}

\* forecast and "list" in forecast and len(forecast["list"]) > 0
HasForecast(forecast) ==
    /\ Truthy(forecast)
    /\ "list" \in DOMAIN forecast
    /\ Len(forecast.list) > 0

\* rain looked at before the comparison with the current weather
ForecastMessageRainFirst(weather, forecast) ==
    IF HasForecast(forecast)
    THEN LET main_weather == weather.weather[1].main
             next_forecast == forecast.list[1]
             forecast_weather == next_forecast.weather[1].main
             forecast_desc == Capitalize(next_forecast.weather[1].description)
         IN  IF forecast_weather = "Rain"
             THEN <<UmbrellaText>>
             ELSE IF forecast_weather # main_weather
                  THEN <<ForecastPrefix \o forecast_desc>>
                  ELSE <<NoChangeText>>
    ELSE <<>>

\* the texts drawn on the image for the forecast (none or one)
ForecastMessage(weather, forecast) ==
    IF HasForecast(forecast)
    THEN LET main_weather == weather.weather[1].main
             next_forecast == forecast.list[1]
             forecast_weather == next_forecast.weather[1].main
             forecast_desc == Capitalize(next_forecast.weather[1].description)
         IN  IF forecast_weather # main_weather
             THEN IF forecast_weather = "Rain"
                  THEN <<UmbrellaText>>
                  ELSE <<ForecastPrefix \o forecast_desc>>
             ELSE <<NoChangeText>>
    ELSE <<>>

\* the lines added to the caption for the forecast
CaptionForecast(current, forecast) ==
    IF HasForecast(forecast)
    THEN LET next_forecast == forecast.list[1]
             forecast_weather == next_forecast.weather[1].main
             forecast_desc == Capitalize(next_forecast.weather[1].description)
         IN  IF forecast_weather # current.weather[1].main
             THEN IF forecast_weather = "Rain"
                  THEN <<UmbrellaText>>
                  ELSE <<ForecastPrefix \o forecast_desc>>
             ELSE <<NoChangeText>>
    ELSE <<>>

-----------------------------------------------------------------------------
(* The messages received and the answers of the weather provider *)

Reqs == 1..MaxReqs

\* the texts of the messages: two that differ in case only (one with a
\* trailing blank), and a coordinate pair
RawTexts == { <<"B", "x">>, <<"b", "x", " ">>, <<"1", ",", "1">> }

Weather(main, description) ==
    [weather |-> <<[main |-> main, description |-> description]>>]

\* a current-conditions body: temperatures and speeds are carried in
\* hundredths
Snapshot(main, description, temp, speed) ==
    [cod |-> 200,
     weather |-> <<[main |-> main, description |-> description]>>,
     main |-> [temp |-> temp],
     wind |-> [speed |-> speed]]

CurrentClear == Snapshot("Clear", <<"b", "X">>, 1826, 314)

CurrentRain == Snapshot("Rain", <<"r">>, -4, 0)

\* responses to the current-conditions request: two accepted ones, an
\* unknown location (404), and a 200 whose body reports another cod
CurrentResponses ==
    { [status_code |-> 200, json |-> CurrentClear],
      [status_code |-> 200, json |-> CurrentRain],
      [status_code |-> 404, json |-> [cod |-> 404]],
      [status_code |-> 200, json |-> [cod |-> 404]] }

\* responses to the forecast request: a forecast of two points, an empty
\* forecast, and a failure
ForecastResponses ==
    { [status_code |-> 200,
       json |-> [cod |-> 200,
                 list |-> <<Weather("Rain", <<"r">>), Weather("Clear", <<"b">>)>>]],
      [status_code |-> 200, json |-> [cod |-> 200, list |-> <<>>]],
      [status_code |-> 500, json |-> [cod |-> 500]] }

-----------------------------------------------------------------------------
(* weather_handler on the event loop *)

\* the requests awaited, the thread given back to the event loop
HoldsThreadNever(p) == FALSE

\* a handler at one of these places is inside a blocking call
\* (requests.get): it keeps the thread of the event loop
HoldsThread(p) == p \in {"wait_current", "wait_forecast"}

ThreadFree == \A r \in Reqs : ~HoldsThread(pc[r])

\* weather_text, the text drawn on the image, one line per element
WeatherText(weather, loc) ==
    LET description == Capitalize(weather.weather[1].description)
        temp == weather.main.temp
        wind_speed == weather.wind.speed
    IN  << loc,
           <<"Pogoda: ">> \o description,
           <<"Temperatura: ">> \o Format1(temp) \o <<" degC">>,
           <<"Veter: ">> \o Format1(wind_speed) \o <<" m/s">> >>

\* Clouds forgotten
BackgroundPathNoClouds(main_weather) ==
    CASE main_weather = "Clear" -> "assets/sunny.png"
      [] main_weather = "Rain" -> "assets/rain.png"
      [] main_weather = "Snow" -> "assets/snow.png"
      [] OTHER -> "assets/default.png"

\* bg_path, the background chosen for the current weather
BackgroundPath(main_weather) ==
    CASE main_weather = "Clear" -> "assets/sunny.png"
      [] main_weather = "Rain" -> "assets/rain.png"
      [] main_weather = "Snow" -> "assets/snow.png"
      [] main_weather = "Clouds" -> "assets/cloudy.png"
      [] OTHER -> "assets/default.png"

\* what the bot finds on disk: the background file is present and
\* readable, missing, or unreadable; the font file is present or missing
Files ==
    [background : {"present", "missing", "unreadable"},
     font : {"present", "missing"}]

\* the files of the running bot: backgrounds and font in place (every
\* other disk is gone through where generate_weather_image is run on its
\* own)
InstalledFiles == [background |-> "present", font |-> "present"]

\* the IOError of Image.open let through
LoadBackgroundNoFallback(bg_path, files) ==
    IF files.background = "present"
    THEN [opened |-> bg_path, mode |-> "RGBA"]
    ELSE [raised |-> "IOError"]

\* bg: the background file opened, or on IOError a new gray image
LoadBackground(bg_path, files) ==
    IF files.background = "present"
    THEN [opened |-> bg_path, mode |-> "RGBA"]
    ELSE [new |-> <<800, 400>>, mode |-> "RGBA",
          color |-> <<200, 200, 200, 255>>]

\* font: DejaVuSans at 36, or on IOError the built-in font
LoadFont(files) ==
    IF files.font = "present"
    THEN [truetype |-> "DejaVuSans.ttf", size |-> 36]
    ELSE [truetype |-> "default", size |-> 0]

\* generate_weather_image: the PNG made of the background, with the weather
\* text and the forecast message drawn in the font
generate_weather_image(weather, forecast, loc, files) ==
    [bg_path |-> BackgroundPath(weather.weather[1].main),
     bg |-> LoadBackground(BackgroundPath(weather.weather[1].main), files),
     font |-> LoadFont(files),
     weather_text |-> WeatherText(weather, loc),
     forecast_message |-> ForecastMessage(weather, forecast),
     format |-> "PNG"]

\* the temperature written without its decimal
CaptionTextNoDecimal(current, loc) ==
    LET description == Capitalize(current.weather[1].description)
        temp == current.main.temp
        wind_speed == current.wind.speed
    IN  << loc,
           <<"Pogoda: ">> \o description,
           <<"Temperatura: ">> \o FormatTruncated(temp) \o <<" degC">>,
           <<"Veter: ">> \o Format1(wind_speed) \o <<" m/s">> >>

\* the caption before the forecast is added, one line per element
CaptionText(current, loc) ==
    LET description == Capitalize(current.weather[1].description)
        temp == current.main.temp
        wind_speed == current.wind.speed
    IN  << loc,
           <<"Pogoda: ">> \o description,
           <<"Temperatura: ">> \o Format1(temp) \o <<" degC">>,
           <<"Veter: ">> \o Format1(wind_speed) \o <<" m/s">> >>

\* the caption of the photo
Caption(current, forecast, loc) ==
    CaptionText(current, loc) \o CaptionForecast(current, forecast)

\* get_weather returns (cur, fc), its now is gone, and weather_handler goes
\* on: the error text or the photo is handed to the messenger and the
\* handler awaits (the responses stay until the handler ends)
Returned(r, loc, cur, fc) ==
    /\ now' = [now EXCEPT ![r] = 0]
    /\ current_data' = [current_data EXCEPT ![r] = cur]
    /\ forecast_data' = [forecast_data EXCEPT ![r] = fc]
    /\ IF cur = NoneV
       THEN /\ pc' = [pc EXCEPT ![r] = "reply_text"]
            /\ UNCHANGED <<image, caption>>
       ELSE /\ pc' = [pc EXCEPT ![r] = "reply_photo"]
            /\ image' = [image EXCEPT
                   ![r] = generate_weather_image(cur, fc, loc, InstalledFiles)]
            /\ caption' = [caption EXCEPT ![r] = Caption(cur, fc, loc)]

\* the handler of r ends: its local variables are gone
Ended(r) ==
    /\ location' = [location EXCEPT ![r] = <<>>]
    /\ now' = [now EXCEPT ![r] = 0]
    /\ response_current' = [response_current EXCEPT ![r] = NoneV]
    /\ response_forecast' = [response_forecast EXCEPT ![r] = NoneV]
    /\ current_data' = [current_data EXCEPT ![r] = NoneV]
    /\ forecast_data' = [forecast_data EXCEPT ![r] = NoneV]
    /\ image' = [image EXCEPT ![r] = NoneV]
    /\ caption' = [caption EXCEPT ![r] = <<>>]
    /\ requested' = [requested EXCEPT ![r] = <<>>]

InitBot ==
    /\ clock = 0
    /\ weather_cache = <<>>
    /\ pc = [r \in Reqs |-> "none"]
    /\ location = [r \in Reqs |-> <<>>]
    /\ now = [r \in Reqs |-> 0]
    /\ response_current = [r \in Reqs |-> NoneV]
    /\ response_forecast = [r \in Reqs |-> NoneV]
    /\ current_data = [r \in Reqs |-> NoneV]
    /\ forecast_data = [r \in Reqs |-> NoneV]
    /\ requested = [r \in Reqs |-> <<>>]
    /\ image = [r \in Reqs |-> NoneV]
    /\ caption = [r \in Reqs |-> <<>>]
    /\ sent = [r \in Reqs |-> <<>>]

Init ==
    /\ InitBot
    /\ arg = NoneV
    /\ res = NoneV

\* time passes
Tick ==
    /\ \E d \in TickSteps :
          /\ clock + d <= MaxClock
          /\ clock' = clock + d
    /\ UNCHANGED <<weather_cache, pc, locals, requested, sent, pure>>

\* a text message arrives and waits for its handler
Arrive(r) ==
    /\ pc[r] = "none"
    /\ \A q \in Reqs : q < r => pc[q] # "none"
    /\ pc' = [pc EXCEPT ![r] = "queued"]
    /\ UNCHANGED <<clock, weather_cache, locals, requested, sent, pure>>

\* weather_handler starts on the message text t and calls get_weather: the
\* call is served from the cache, or the current-conditions request is sent
Start(r, t) ==
    /\ pc[r] = "queued"
    /\ \A q \in Reqs : q < r => pc[q] \notin {"none", "queued"}
    /\ ThreadFree
    /\ location' = [location EXCEPT ![r] = Strip(t)]
    /\ LET key == CacheKey(Strip(t))
       IN  IF Hit(weather_cache, key, clock)
           THEN /\ Returned(r, Strip(t), weather_cache[key].current,
                               weather_cache[key].forecast)
                /\ weather_cache' = CacheAfterHit(weather_cache, key, clock)
                /\ UNCHANGED requested
           ELSE /\ now' = [now EXCEPT ![r] = clock]
                /\ requested' = [requested EXCEPT
                       ![r] = Append(@, url_current(Strip(t)))]
                /\ pc' = [pc EXCEPT ![r] = "wait_current"]
                /\ UNCHANGED <<weather_cache, current_data, forecast_data,
                               image, caption>>
    /\ UNCHANGED <<clock, response_current, response_forecast, sent, pure>>

\* the current-conditions response arrives: get_weather returns
\* (None, None) or sends the forecast request
CurrentResponse(r, resp) ==
    /\ pc[r] = "wait_current"
    /\ response_current' = [response_current EXCEPT ![r] = resp]
    /\ IF CurrentOk(resp)
       THEN /\ current_data' = [current_data EXCEPT ![r] = resp.json]
            /\ requested' = [requested EXCEPT
                   ![r] = Append(@, url_forecast(location[r]))]
            /\ pc' = [pc EXCEPT ![r] = "wait_forecast"]
            /\ UNCHANGED <<now, forecast_data, image, caption>>
       ELSE /\ Returned(r, location[r], NoneV, NoneV)
            /\ UNCHANGED requested
    /\ UNCHANGED <<clock, weather_cache, location, response_forecast, sent,
                   pure>>

\* requests.get raises (the request cannot be completed): nothing catches
\* the exception, the handler ends
RequestRaises(r) ==
    /\ pc[r] \in {"wait_current", "wait_forecast"}
    /\ pc' = [pc EXCEPT ![r] = "raised"]
    /\ Ended(r)
    /\ UNCHANGED <<clock, weather_cache, sent, pure>>

\* the forecast response arrives: the entry is stored, get_weather returns
ForecastResponse(r, resp) ==
    /\ pc[r] = "wait_forecast"
    /\ response_forecast' = [response_forecast EXCEPT ![r] = resp]
    /\ weather_cache' = Store(weather_cache, CacheKey(location[r]), now[r],
                              current_data[r], ForecastData(resp))
    /\ Returned(r, location[r], current_data[r], ForecastData(resp))
    /\ UNCHANGED <<clock, location, response_current, requested, sent, pure>>

\* the awaited reply_text (of the error text) or reply_photo (of image[r]
\* with caption[r]) completes and the handler ends; sent keeps the kind of
\* each reply delivered
ReplySent(r) ==
    /\ pc[r] \in {"reply_text", "reply_photo"}
    /\ ThreadFree
    /\ sent' = [sent EXCEPT ![r] = Append(@,
           IF pc[r] = "reply_text" THEN "text" ELSE "photo")]
    /\ pc' = [pc EXCEPT ![r] = "done"]
    /\ Ended(r)
    /\ UNCHANGED <<clock, weather_cache, pure>>

Next ==
    \/ Tick
    \/ \E r \in Reqs : Arrive(r)
    \/ \E r \in Reqs, t \in RawTexts : Start(r, t)
    \/ \E r \in Reqs, resp \in CurrentResponses : CurrentResponse(r, resp)
    \/ \E r \in Reqs : RequestRaises(r)
    \/ \E r \in Reqs, resp \in ForecastResponses : ForecastResponse(r, resp)
    \/ \E r \in Reqs : ReplySent(r)

Spec == Init /\ [][Next]_vars

-----------------------------------------------------------------------------
(* The cache: hits and misses *)

\* a step in which the handler of r starts and calls get_weather
Calls(r) == pc[r] = "queued" /\ pc'[r] # "queued"

\* a step in which the call of get_weather made for r returns a snapshot
Stores(r) == pc[r] = "wait_forecast" /\ pc'[r] = "reply_photo"

\* C1: a call of get_weather that finds an entry for the lowercased location
\* with now - timestamp < 600 sends no request and returns the snapshot and
\* the forecast of the entry; an entry holds the snapshot and the forecast
\* that the call which stored it returned.
C1_FreshEntryIsServed ==
    /\ [][\A r \in Reqs : Calls(r) =>
            LET key == Lower(location'[r])
            IN  (key \in DOMAIN weather_cache
                 /\ clock - weather_cache[key].timestamp < 600)
                => /\ requested'[r] = <<>>
                   /\ pc'[r] \in {"reply_text", "reply_photo"}
                   /\ current_data'[r] = weather_cache[key].current
                   /\ forecast_data'[r] = weather_cache[key].forecast]_vars
    /\ [][\A r \in Reqs : Stores(r) =>
            LET key == Lower(location[r])
            IN  /\ key \in DOMAIN weather_cache'
                /\ weather_cache'[key].current = current_data'[r]
                /\ weather_cache'[key].forecast = forecast_data'[r]]_vars

\* a call has been served from the cache: it returned the entry's snapshot
\* without a request
C1_Witness ==
    \E r \in Reqs :
        /\ pc[r] = "reply_photo"
        /\ requested[r] = <<>>
        /\ Lower(location[r]) \in DOMAIN weather_cache
        /\ current_data[r] = weather_cache[Lower(location[r])].current
        /\ clock > weather_cache[Lower(location[r])].timestamp

\* C2: a call of get_weather that finds no entry for the key, or an entry
\* with now - timestamp >= 600 (600 included), sends the current-conditions
\* request; with C1, whether a call fetches is decided by now, the
\* timestamp and 600 alone.
C2_StaleOrAbsentIsFetched ==
    [][\A r \in Reqs : Calls(r) =>
          LET key == Lower(location'[r])
          IN  (key \notin DOMAIN weather_cache
               \/ clock - weather_cache[key].timestamp >= 600)
              => /\ pc'[r] = "wait_current"
                 /\ Len(requested'[r]) = 1
                 /\ requested'[r][1].endpoint = "weather"]_vars

\* a call fetches again for an entry that is exactly 600 seconds old
C2_Witness ==
    \E r \in Reqs :
        /\ pc[r] = "wait_current"
        /\ Lower(location[r]) \in DOMAIN weather_cache
        /\ now[r] - weather_cache[Lower(location[r])].timestamp = 600

\* the current-conditions response is a failure: a status other than 200 or
\* a body whose cod is not 200
Failure(resp) == resp.status_code # 200 \/ resp.json.cod # 200

\* a step in which the current-conditions response of r arrives
CurrentArrives(r) == response_current[r] = NoneV /\ response_current'[r] # NoneV

\* C3: a call of get_weather whose current-conditions fetch fails leaves the
\* cache as it found it: the cache does not change from the start of the
\* call to the arrival of the response, and on a failed response the call
\* returns (None, None) at once, storing nothing.
C3_FailedFetchKeepsCache ==
    /\ [][\A r \in Reqs : (Calls(r) \/ pc[r] = "wait_current")
            => weather_cache' = weather_cache]_vars
    /\ [][\A r \in Reqs :
            (CurrentArrives(r) /\ Failure(response_current'[r]))
            => /\ pc'[r] = "reply_text"
               /\ current_data'[r] = NoneV
               /\ forecast_data'[r] = NoneV
               /\ weather_cache' = weather_cache]_vars

\* a refresh of an existing entry has failed and the entry is still there
C3_Witness ==
    \E r \in Reqs :
        /\ pc[r] = "reply_text"
        /\ Failure(response_current[r])
        /\ Lower(location[r]) \in DOMAIN weather_cache
        /\ clock - weather_cache[Lower(location[r])].timestamp >= 600

-----------------------------------------------------------------------------
(* Concurrent requests *)

\* the handler of r is inside get_weather, between its look at the cache
\* and its return
InGetWeather(r) == pc[r] \in {"wait_current", "wait_forecast"}

C5_PendingFetchStallsItselfOnly ==
    \A r, q \in Reqs :
        (InGetWeather(r) /\ q # r) =>
            /\ (pc[q] = "queued" /\ \A p \in Reqs : p < q => pc[p] \notin {"none", "queued"})
               => ENABLED (\E t \in RawTexts : Start(q, t))
            /\ pc[q] \in {"reply_text", "reply_photo"} => ENABLED ReplySent(q)

-----------------------------------------------------------------------------
(* Failures of the fetches *)

\* C6: every failure of the current-conditions fetch, a failure response or
\* a request that cannot be completed, takes the handler to the reply with
\* the error text, and a handler never ends without having replied.
C6_FailureEndsInErrorReply ==
    /\ [][\A r \in Reqs :
            (pc[r] = "wait_current" /\ pc'[r] \notin {"wait_current", "wait_forecast"})
            => pc'[r] = "reply_text"]_vars
    /\ [][\A r \in Reqs :
            (pc[r] = "reply_text" /\ pc'[r] # "reply_text")
            => pc'[r] = "done" /\ sent'[r] = <<"text">>]_vars

\* C7: once the current-conditions fetch has succeeded, whatever happens to
\* the forecast fetch, get_weather returns the snapshot (with no forecast
\* when the forecast response is not a 200) and the handler goes on to
\* reply with the photo.
C7_ForecastFailureNotFatal ==
    [][\A r \in Reqs :
          (pc[r] = "wait_forecast" /\ pc'[r] # "wait_forecast")
          => /\ pc'[r] = "reply_photo"
             /\ current_data'[r] = response_current[r].json
             /\ (response_forecast'[r].status_code # 200
                 => forecast_data'[r] = NoneV)]_vars

-----------------------------------------------------------------------------
(* Case folding of the key *)

UpperCase == {"B", "X", "R"}

\* two texts that lowercase to the same string, compared character by
\* character
SameFolded(a, b) ==
    /\ Len(a) = Len(b)
    /\ \A i \in 1..Len(a) :
          \/ a[i] = b[i]
          \/ <<a[i], b[i]>> \in {<<"B", "b">>, <<"b", "B">>, <<"X", "x">>,
                                 <<"x", "X">>, <<"R", "r">>, <<"r", "R">>}

\* the request p is running and has fetched for its location
Fetched(p) == pc[p] = "reply_photo" /\ requested[p] # <<>>

-----------------------------------------------------------------------------
(* The query of get_weather, on every location text *)

Alphabet == {"1", ".", ",", " ", "x"}

\* the texts weather_handler can pass to get_weather: not empty, stripped
Locations ==
    {s \in UNION {[1..n -> Alphabet] : n \in 1..MaxLen} : Strip(s) = s}

InitResolve ==
    /\ InitBot
    /\ arg \in Locations
    /\ res = NoneV

\* get_weather chooses the query for the location arg
Resolve ==
    /\ res = NoneV
    /\ res' = Query(arg)
    /\ UNCHANGED <<bot, arg>>

NextResolve == Resolve

SpecResolve == InitResolve /\ [][NextResolve]_vars

\* the query as the text is split on its first comma only
QueryOnFirstComma(raw) ==
    IF HasComma(raw)
    THEN LET i == FirstComma(raw, 1)
             before == Strip(SubSeq(raw, 1, i - 1))
             after == Strip(SubSeq(raw, i + 1, Len(raw)))
         IN  IF IsFloat(before) /\ IsFloat(after)
             THEN [by |-> "latlon", lat |-> FloatValue(before),
                   lon |-> FloatValue(after)]
             ELSE [by |-> "q", q |-> raw]
    ELSE [by |-> "q", q |-> raw]

\* C9: the query is by latitude and longitude exactly when the text has a
\* comma and the two parts around its FIRST comma, trimmed, are both floats;
\* in every other case it is by the whole text as a place name.
C9_SplitOnFirstComma == res # NoneV => res = QueryOnFirstComma(arg)

-----------------------------------------------------------------------------
(* The forecast message, on every snapshot and forecast *)

Categories == {"Clear", "Rain", "Clouds"}

Descriptions == { <<"r">>, <<"b", "X">> }

Points == {Weather(m, d) : m \in Categories, d \in Descriptions}

\* None, a body without a list, and the bodies with a list of up to
\* MaxPoints points
Forecasts ==
    {NoneV, [cod |-> 200]}
    \cup {[cod |-> 200, list |-> l] :
             l \in UNION {[1..n -> Points] : n \in 0..MaxPoints}}

\* temperatures and wind speeds, in hundredths
Temperatures == {-4, 1826}

Speeds == {0, 314}

Snapshots ==
    {Snapshot(m, d, t, w) :
        m \in Categories, d \in Descriptions, t \in Temperatures, w \in Speeds}

InitNarrate ==
    /\ InitBot
    /\ arg \in [weather : Snapshots, forecast : Forecasts,
                files : {InstalledFiles}]
    /\ res = NoneV

\* the image and the caption are made for the snapshot and forecast of arg
Narrate ==
    /\ res = NoneV
    /\ res' = [image |-> generate_weather_image(arg.weather, arg.forecast, <<"x">>,
                                                 arg.files),
               caption |-> Caption(arg.weather, arg.forecast, <<"x">>)]
    /\ UNCHANGED <<bot, arg>>

NextNarrate == Narrate

SpecNarrate == InitNarrate /\ [][NextNarrate]_vars

\* the forecast is absent, or has no list or an empty one
NoForecast(f) == f = NoneV \/ "list" \notin DOMAIN f \/ Len(f.list) = 0

\* the message m follows the rule for the current category and the first
\* point of the forecast
FollowsRule(m, current, f) ==
    IF NoForecast(f) THEN m = <<>>
    ELSE LET first == f.list[1].weather[1]
         IN  /\ Len(m) = 1
             /\ first.main = current => m[1] = NoChangeText
             /\ (first.main # current /\ first.main = "Rain")
                => m[1] = UmbrellaText
             /\ (first.main # current /\ first.main # "Rain")
                => /\ Len(m[1]) = 1 + Len(first.description)
                   /\ m[1][1] = "Prognoz: "
                   /\ SameFolded(Tail(m[1]), first.description)

\* C10: on the image and in the caption alike there is no forecast message
\* when the forecast is absent or its list is empty; otherwise the message
\* is decided by the first point alone: the no-change text when its category
\* is the current one (Rain included), the umbrella text when it differs and
\* is Rain, the text with the point's description in every other case.
C10_ForecastRule ==
    res # NoneV =>
        LET current == arg.weather.weather[1].main
        IN  /\ FollowsRule(res.image.forecast_message, current, arg.forecast)
            /\ FollowsRule(SubSeq(res.caption, 5, Len(res.caption)), current,
                           arg.forecast)

\* the message has been made for rain now and rain next, followed by
\* another weather
C10_Witness ==
    /\ res # NoneV
    /\ arg.weather.weather[1].main = "Rain"
    /\ ~NoForecast(arg.forecast)
    /\ Len(arg.forecast.list) = 2
    /\ arg.forecast.list[1].weather[1].main = "Rain"
    /\ arg.forecast.list[2].weather[1].main = "Clear"
    /\ res.image.forecast_message = <<NoChangeText>>

-----------------------------------------------------------------------------
(* Image and caption *)

\* C11: the caption and the text on the image agree: the caption starts with
\* the four lines drawn on the image (location, description, temperature,
\* wind, with the same values) and goes on with exactly the forecast
\* message drawn on the image, or with nothing when none is drawn.
C11_CaptionMirrorsImage ==
    res # NoneV =>
        /\ Len(res.image.weather_text) = 4
        /\ res.caption = res.image.weather_text \o res.image.forecast_message

\* image and caption have been made for a negative temperature that rounds
\* to zero and a forecast that differs from the current weather
C11_Witness ==
    /\ res # NoneV
    /\ arg.weather.main.temp = -4
    /\ res.image.weather_text[3] = <<"Temperatura: ", "-", "0", ".", "0", " degC">>
    /\ Len(res.image.forecast_message) = 1
    /\ res.image.forecast_message[1] # NoChangeText
    /\ Len(res.caption) = 5

-----------------------------------------------------------------------------
(* generate_weather_image, on every category and every state of the disk *)

\* the categories the image distinguishes, the misty ones, and another one
AllCategories ==
    {"Clear", "Rain", "Snow", "Clouds", "Fog", "Mist", "Haze", "Thunderstorm"}

InitRender ==
    /\ InitBot
    /\ arg \in [weather : {Snapshot(m, d, t, 314) : m \in AllCategories,
                              d \in Descriptions, t \in Temperatures},
                forecast : {NoneV},
                files : Files]
    /\ res = NoneV

\* the image is made for the snapshot of arg from the files of arg
Render ==
    /\ res = NoneV
    /\ res' = generate_weather_image(arg.weather, arg.forecast, <<"x">>,
                                     arg.files)
    /\ UNCHANGED <<bot, arg>>

NextRender == Render

SpecRender == InitRender /\ [][NextRender]_vars

\* the background of a category, with a fog background for Fog, Mist, Haze
BackgroundWithFog(category) ==
    CASE category = "Clear" -> "assets/sunny.png"
      [] category = "Rain" -> "assets/rain.png"
      [] category = "Snow" -> "assets/snow.png"
      [] category = "Clouds" -> "assets/cloudy.png"
      [] category \in {"Fog", "Mist", "Haze"} -> "assets/fog.png"
      [] OTHER -> "assets/default.png"

\* C12 as stated: Clear to sunny, Rain to rain, Snow to snow, Clouds to
\* cloudy, Fog, Mist and Haze to fog, every other category to default.
C12_BackgroundWithFog ==
    res # NoneV => res.bg_path = BackgroundWithFog(arg.weather.weather[1].main)

\* C12, amended: Clear to sunny, Rain to rain, Snow to snow, Clouds to
\* cloudy, and every other category, Fog, Mist and Haze among them, to
\* default.
C12_BackgroundMapping ==
    res # NoneV =>
        LET category == arg.weather.weather[1].main
        IN  /\ category = "Clear" => res.bg_path = "assets/sunny.png"
            /\ category = "Rain" => res.bg_path = "assets/rain.png"
            /\ category = "Snow" => res.bg_path = "assets/snow.png"
            /\ category = "Clouds" => res.bg_path = "assets/cloudy.png"
            /\ category \notin {"Clear", "Rain", "Snow", "Clouds"}
               => res.bg_path = "assets/default.png"

\* the image has been made for mist, on the default background
C12_Witness ==
    /\ res # NoneV
    /\ arg.weather.weather[1].main = "Mist"
    /\ res.bg_path = "assets/default.png"

\* C13: whatever is on disk, generate_weather_image returns a PNG; when the
\* background file is missing or unreadable the image is the new gray one
\* of 800 x 400, and when the font file is missing the built-in font is used.
C13_RenderNeverFails ==
    res # NoneV =>
        /\ res.format = "PNG"
        /\ DOMAIN res.bg \in {{"opened", "mode"}, {"new", "mode", "color"}}
        /\ arg.files.background # "present"
           => /\ "new" \in DOMAIN res.bg
              /\ res.bg.new = <<800, 400>>
              /\ res.bg.color = <<200, 200, 200, 255>>
        /\ arg.files.background = "present"
           => "opened" \in DOMAIN res.bg /\ res.bg.opened = res.bg_path
        /\ arg.files.font = "missing" => res.font.truetype = "default"
        /\ arg.files.font = "present" => res.font.truetype = "DejaVuSans.ttf"

\* the image has been made with an unreadable background and no font
C13_Witness ==
    /\ res # NoneV
    /\ arg.files = [background |-> "unreadable", font |-> "missing"]
    /\ "new" \in DOMAIN res.bg
    /\ res.font.truetype = "default"

-----------------------------------------------------------------------------
(* The cache over time *)

\* the entries of c2 are those of c1 but for the entry of key k
SameButFor(c1, c2, k) ==
    /\ DOMAIN c2 = DOMAIN c1 \cup {k}
    /\ \A j \in DOMAIN c1 : j # k => c2[j] = c1[j]

\* C14: the cache is a mapping from lowercased keys to one entry each that
\* never loses a key, stale or not, and it changes in one way only: a call
\* that fetched with success writes the entry of its own key.
C14_CacheOnlyGrows ==
    /\ [](\A k \in DOMAIN weather_cache :
            /\ Lower(k) = k
            /\ DOMAIN weather_cache[k] = {"timestamp", "current", "forecast"})
    /\ [][\A k \in DOMAIN weather_cache : k \in DOMAIN weather_cache']_vars
    /\ [][weather_cache' # weather_cache =>
            \E r \in Reqs :
                /\ Stores(r)
                /\ SameButFor(weather_cache, weather_cache', Lower(location[r]))]_vars

\* a second key has been stored while the entry of the first one, stale,
\* is still there
C14_Witness ==
    \E k, j \in DOMAIN weather_cache :
        /\ k # j
        /\ weather_cache[j].timestamp - weather_cache[k].timestamp >= 600

\* C15: a call that misses sends the current-conditions request, then at
\* most the forecast request for the same location, and the forecast
\* request only once the current-conditions response has come back good; a
\* call that returns after a failed response has sent the one request only;
\* a call that returns a fetched snapshot stores it with its forecast and
\* the time of the call under the lowercased location, in place of any
\* entry that was there.
C15_OneFetchInOrder ==
    /\ [](\A r \in Reqs :
            /\ Len(requested[r]) <= 2
            /\ Len(requested[r]) >= 1
               => requested[r][1] =
                     [endpoint |-> "weather", query |-> requested[r][1].query]
            /\ Len(requested[r]) = 2
               => /\ requested[r][2] =
                        [endpoint |-> "forecast", query |-> requested[r][1].query]
                  /\ response_current[r] # NoneV
                  /\ ~Failure(response_current[r])
            /\ pc[r] = "wait_current" => Len(requested[r]) = 1
            /\ pc[r] = "wait_forecast" => Len(requested[r]) = 2
            /\ (pc[r] = "reply_text") => Len(requested[r]) = 1)
    /\ [][\A r \in Reqs : Stores(r) =>
            /\ Len(requested'[r]) = 2
            /\ Lower(location[r]) \in DOMAIN weather_cache'
            /\ weather_cache'[Lower(location[r])] =
                  [timestamp |-> now[r],
                   current |-> response_current[r].json,
                   forecast |-> IF response_forecast'[r].status_code = 200
                                THEN response_forecast'[r].json
                                ELSE NoneV]]_vars

\* a call has fetched again for a key that had an entry and has put its
\* own, different, snapshot in its place
C15_Witness ==
    \E r \in Reqs :
        /\ pc[r] = "reply_photo"
        /\ Len(requested[r]) = 2
        /\ weather_cache[Lower(location[r])].timestamp >= 600
        /\ weather_cache[Lower(location[r])].current = current_data[r]
        /\ current_data[r] = CurrentRain

\* C16: a handler that has ended has sent exactly one reply, the error text
\* or the photo.
C16_ExactlyOneReply ==
    \A r \in Reqs :
        /\ Len(sent[r]) <= 1
        /\ pc[r] \in {"done", "raised"} => Len(sent[r]) = 1

\* C17: a call served from the cache leaves the cache as it is, timestamp
\* included, so that an entry expires 600 seconds after it was fetched
\* whatever it has served: a call at timestamp + 600 or later fetches.
C17_HitLeavesCache ==
    /\ [][\A r \in Reqs :
            (Calls(r) /\ requested'[r] = <<>>) => weather_cache' = weather_cache]_vars
    /\ [](\A r \in Reqs :
            (pc[r] \in {"reply_text", "reply_photo"} /\ requested[r] = <<>>)
            => /\ Lower(location[r]) \in DOMAIN weather_cache
               /\ clock >= weather_cache[Lower(location[r])].timestamp)
    /\ [][\A r \in Reqs : Calls(r) =>
            \A k \in DOMAIN weather_cache :
                (SameFolded(k, location'[r])
                 /\ clock >= weather_cache[k].timestamp + 600)
                => pc'[r] = "wait_current"]_vars

\* a call has been served, 300 seconds after the fetch, from an entry that
\* still has the time of the fetch
C17_Witness ==
    \E r \in Reqs :
        /\ pc[r] = "reply_photo"
        /\ requested[r] = <<>>
        /\ Lower(location[r]) \in DOMAIN weather_cache
        /\ weather_cache[Lower(location[r])].timestamp = 0
        /\ clock = 300

\* the forecast fetch of r ends in this step without a forecast: the
\* response is not a 200, or the request raises
ForecastFails(r) ==
    /\ pc[r] = "wait_forecast"
    /\ pc'[r] # "wait_forecast"
    /\ \/ response_forecast'[r] = NoneV
       \/ response_forecast'[r].status_code # 200

\* C18: when the current-conditions fetch has succeeded and the forecast
\* fetch fails, the snapshot is stored under its key with no forecast.
C18_FailedForecastIsCached ==
    [][\A r \in Reqs : ForecastFails(r) =>
            /\ Lower(location[r]) \in DOMAIN weather_cache'
            /\ weather_cache'[Lower(location[r])].timestamp = now[r]
            /\ weather_cache'[Lower(location[r])].current = current_data[r]
            /\ weather_cache'[Lower(location[r])].forecast = NoneV]_vars

\* C18, for a forecast fetch that fails by its status: a snapshot whose
\* forecast response was not a 200 is stored with no forecast, and a call
\* served from an entry without forecast returns the snapshot and no
\* forecast without a request, and shows no forecast message on the image
\* or in the caption.
C18_AbsentForecastCached ==
    /\ [][\A r \in Reqs :
            (Stores(r) /\ response_forecast'[r].status_code # 200)
            => /\ weather_cache'[Lower(location[r])].forecast = NoneV
               /\ weather_cache'[Lower(location[r])].current = current_data[r]]_vars
    /\ [][\A r \in Reqs : Calls(r) =>
            \A k \in DOMAIN weather_cache :
                (/\ SameFolded(k, location'[r])
                 /\ weather_cache[k].forecast = NoneV
                 /\ clock - weather_cache[k].timestamp < 600)
                => /\ requested'[r] = <<>>
                   /\ pc'[r] = "reply_photo"
                   /\ current_data'[r] = weather_cache[k].current
                   /\ forecast_data'[r] = NoneV
                   /\ image'[r].forecast_message = <<>>
                   /\ Len(caption'[r]) = 4]_vars

\* a call has been served a snapshot without forecast from the cache
C18_Witness ==
    \E r \in Reqs :
        /\ pc[r] = "reply_photo"
        /\ requested[r] = <<>>
        /\ forecast_data[r] = NoneV
        /\ weather_cache[Lower(location[r])].forecast = NoneV

====
